---- MODULE Spec2Model ----
(***************************************************************************)
(* Model of src/streamlit_app.py: the per-address validation pipeline      *)
(* (validate_email_address, smtp_check) and the batch loop that submits    *)
(* one validate_email_address call per non-blank line to a thread pool     *)
(* and collects the futures on the main thread with as_completed.          *)
(*                                                                         *)
(* Strings are sequences of tokens.  A token is one character (" ", "@",   *)
(* ".") or an indivisible run of characters (a local part, a domain name,  *)
(* a literal fragment of a message).                                       *)
(***************************************************************************)
EXTENDS Integers, Sequences, FiniteSets, TLC

\* ------------------------------------------------------------------ bounds

\* Longest uploaded file, in lines.
MaxLines == 2

\* ThreadPoolExecutor(max_workers=20), scaled down so that a batch larger
\* than the pool fits the model.
max_workers == 1

\* max_retries=3, the default of validate_email_address.
max_retries == 3

\* ------------------------------------------------------------- string ops

\* str.strip(): drop leading and trailing whitespace.
RECURSIVE lstrip(_)
lstrip(s) == IF s # <<>> /\ Head(s) = " " THEN lstrip(Tail(s)) ELSE s

RECURSIVE rstrip(_, _)
rstrip(s, ch) ==
    IF s # <<>> /\ s[Len(s)] = ch THEN rstrip(SubSeq(s, 1, Len(s) - 1), ch) ELSE s

strip(s) == rstrip(lstrip(s), " ")

\* Index of the last occurrence of token sep in s, 0 when there is none.
RECURSIVE LastIndex(_, _, _)
LastIndex(s, sep, k) ==
    IF k = 0 THEN 0
    ELSE IF s[k] = sep THEN k
    ELSE LastIndex(s, sep, k - 1)

\* s.split(sep)[-1]: what follows the last sep, the whole of s without one.
split_last(s, sep) == SubSeq(s, LastIndex(s, sep, Len(s)) + 1, Len(s))

\* `tok in s` for a literal fragment tok.
Contains(s, tok) == \E k \in 1..Len(s) : s[k] = tok

\* ------------------------------------------------------------ input pools

Blank == <<" ">>
AddrX == <<"a", "@", "x.org">>
\* Padded with whitespace, and with an "@" in its local part.
AddrPadded == <<" ", "b", "@", "x.org", "@", "mailinator.com", " ">>

\* Lines an uploaded file is made of.
Lines == {Blank, AddrX, AddrPadded}

RECURSIVE SeqsUpTo(_, _)
SeqsUpTo(S, n) ==
    IF n = 0 THEN {<<>>}
    ELSE LET shorter == SeqsUpTo(S, n - 1)
         IN shorter \cup {Append(s, x) : s \in {t \in shorter : Len(t) = n - 1}, x \in S}

\* Uploaded blacklists: none, or one naming both domains of the pool.
Blacklists == {{}, {<<"x.org">>, <<"mailinator.com">>}}

disposable_providers ==
    {<<"tempmail.com">>, <<"mailinator.com">>, <<"guerrillamail.com">>,
     <<"10minutemail.com">>, <<"throwawaymail.com">>, <<"temp-mail.org">>,
     <<"discard.email">>, <<"emailondeck.com">>, <<"maildrop.cc">>}

\* ------------------------------------------------- the outside world's answers

\* str(e) of an exception: any text, the empty one included.
Descs == {<<>>, <<"e">>}

\* validate_email(email): returns, raises EmailNotValidError, or fails otherwise.
SyntaxOutcomes ==
    {[kind |-> "ok", desc |-> <<>>], [kind |-> "Exception", desc |-> <<"e">>]}
    \cup {[kind |-> "EmailNotValidError", desc |-> d] : d \in Descs}

MxNone == <<>>
MxSeveral ==
    << [preference |-> 20, exchange |-> <<"mx2">>],
       [preference |-> 10, exchange |-> <<"mx1", ".">>],
       [preference |-> 10, exchange |-> <<"mx3", ".">>] >>
MxNull == << [preference |-> 0, exchange |-> <<".">>] >>

\* Record sets dns.resolver.resolve(domain, "MX") may return.
Answers == {MxNone, MxSeveral, MxNull}

\* dns.resolver.resolve(domain, "MX"): an answer, NXDOMAIN, Timeout, or another error.
DnsOutcomes ==
    {[kind |-> "answer", records |-> a, desc |-> <<>>] : a \in Answers}
    \cup {[kind |-> "NXDOMAIN", records |-> <<>>, desc |-> <<>>],
          [kind |-> "Timeout", records |-> <<>>, desc |-> <<>>]}
    \cup {[kind |-> "Exception", records |-> <<>>, desc |-> <<"e">>]}

\* custom_sender="test@example.com", the default of both functions.
default_sender == <<"test@example.com">>

\* Values a caller may give validate_email_address as custom_sender.
Senders == {default_sender, <<"ops@corp.example">>}

\* Reply codes of RCPT.
Codes == {250, 550, 451, 421}

\* The exchange of smtp_check: the connection fails, a step before the reply
\* fails, or RCPT returns a code and quit() then returns or fails.
SmtpOutcomes ==
    {[kind |-> "SMTPConnectError", code |-> 0, quit |-> "none", desc |-> <<>>]}
    \cup {[kind |-> "Exception", code |-> 0, quit |-> "none", desc |-> <<"e">>]}
    \cup {[kind |-> "rcpt", code |-> c, quit |-> "ok", desc |-> <<>>] : c \in Codes}
    \cup {[kind |-> "rcpt", code |-> 250, quit |-> "raise", desc |-> <<"e">>]}

\* ------------------------------------------------------- pipeline functions

Outcome(kind, status, message) == [kind |-> kind, status |-> status, message |-> message]

\* classify reporting a syntax error by the bare text of the exception.
classify_bare_message(email, syn, blacklist) ==
    LET domain == split_last(email, "@") IN
    IF syn.kind = "EmailNotValidError"
        THEN Outcome("return", "Invalid", syn.desc)
    ELSE IF syn.kind # "ok"
        THEN Outcome("raise", "", syn.desc)
    ELSE IF domain \in blacklist
        THEN Outcome("return", "Blacklisted", <<"Domain is blacklisted.">>)
    ELSE IF domain \in disposable_providers
        THEN Outcome("return", "Disposable", <<"Domain is a disposable email provider.">>)
    ELSE Outcome("continue", "", <<>>)

\* classify with the disposable-provider check ahead of the blacklist check.
classify_disposable_first(email, syn, blacklist) ==
    LET domain == split_last(email, "@") IN
    IF syn.kind = "EmailNotValidError"
        THEN Outcome("return", "Invalid", <<"Invalid syntax: ">> \o syn.desc)
    ELSE IF syn.kind # "ok"
        THEN Outcome("raise", "", syn.desc)
    ELSE IF domain \in disposable_providers
        THEN Outcome("return", "Disposable", <<"Domain is a disposable email provider.">>)
    ELSE IF domain \in blacklist
        THEN Outcome("return", "Blacklisted", <<"Domain is blacklisted.">>)
    ELSE Outcome("continue", "", <<>>)

\* validate_email_address, steps 1-3: syntax, blacklist, disposable provider.
\* "continue" enters the DNS loop, "raise" leaves the function by an exception.
classify(email, syn, blacklist) ==
    LET domain == split_last(email, "@") IN
    IF syn.kind = "EmailNotValidError"
        THEN Outcome("return", "Invalid", <<"Invalid syntax: ">> \o syn.desc)
    ELSE IF syn.kind # "ok"
        THEN Outcome("raise", "", syn.desc)
    ELSE IF domain \in blacklist
        THEN Outcome("return", "Blacklisted", <<"Domain is blacklisted.">>)
    ELSE IF domain \in disposable_providers
        THEN Outcome("return", "Disposable", <<"Domain is a disposable email provider.">>)
    ELSE Outcome("continue", "", <<>>)

\* InsertByPreference placing a record ahead of its equals: an unstable sort.
RECURSIVE InsertByPreference_unstable(_, _)
InsertByPreference_unstable(sorted, r) ==
    IF sorted = <<>> THEN <<r>>
    ELSE IF sorted[Len(sorted)].preference < r.preference THEN Append(sorted, r)
    ELSE Append(InsertByPreference_unstable(SubSeq(sorted, 1, Len(sorted) - 1), r),
                sorted[Len(sorted)])

\* list.sort(key=lambda r: r.preference): stable, ascending.
RECURSIVE InsertByPreference(_, _)
InsertByPreference(sorted, r) ==
    IF sorted = <<>> THEN <<r>>
    ELSE IF sorted[Len(sorted)].preference <= r.preference THEN Append(sorted, r)
    ELSE Append(InsertByPreference(SubSeq(sorted, 1, Len(sorted) - 1), r),
                sorted[Len(sorted)])

RECURSIVE sort_by_preference(_)
sort_by_preference(records) ==
    IF records = <<>> THEN <<>>
    ELSE InsertByPreference(
             sort_by_preference(SubSeq(records, 1, Len(records) - 1)),
             records[Len(records)])

\* str(mx_records[0].exchange).rstrip(".") after the sort.
mx_host_of(records) == rstrip(sort_by_preference(records)[1].exchange, ".")

\* MxFoundMessage ending its sentence with a full stop.
MxFoundMessage_full_stop(mx_host) ==
    <<"MX records found", ", prioritized at ">> \o mx_host \o <<".">>

MxFoundMessage(mx_host) == <<"MX records found", ", prioritized at ">> \o mx_host

\* resolve_once retrying NXDOMAIN as it retries a timeout.
resolve_once_retry_nxdomain(dns) ==
    IF dns.kind = "answer" THEN
        IF dns.records = <<>>
            THEN Outcome("return", "Invalid", <<"No MX records found for domain.">>)
            ELSE Outcome("return", "Valid", MxFoundMessage(mx_host_of(dns.records)))
    ELSE IF dns.kind \in {"NXDOMAIN", "Timeout"}
        THEN Outcome("timeout", "", <<>>)
    ELSE Outcome("return", "Invalid", <<"DNS error: ">> \o dns.desc)

\* One pass of the body of the DNS loop on the resolver's outcome dns.
\* "timeout" is the branch that counts a retry and sleeps.
resolve_once(dns) ==
    IF dns.kind = "answer" THEN
        IF dns.records = <<>>
            THEN Outcome("return", "Invalid", <<"No MX records found for domain.">>)
            ELSE Outcome("return", "Valid", MxFoundMessage(mx_host_of(dns.records)))
    ELSE IF dns.kind = "NXDOMAIN"
        THEN Outcome("return", "Invalid", <<"Domain does not exist.">>)
    ELSE IF dns.kind = "Timeout"
        THEN Outcome("timeout", "", <<>>)
    ELSE Outcome("return", "Invalid", <<"DNS error: ">> \o dns.desc)

RetriesExhausted == Outcome("return", "Invalid", <<"DNS query failed after multiple retries.">>)

\* smtp_check without its branch for code 451.
smtp_check_no_greylist(smtp) ==
    IF smtp.kind = "SMTPConnectError" THEN <<"Invalid", <<"SMTP connection failed.">>>>
    ELSE IF smtp.kind = "Exception" \/ smtp.quit = "raise"
        THEN <<"Invalid", <<"SMTP error: ">> \o smtp.desc>>
    ELSE IF smtp.code = 250 THEN <<"Valid", <<"Email exists and is reachable.">>>>
    ELSE IF smtp.code = 550 THEN <<"Invalid", <<"Mailbox does not exist.">>>>
    ELSE <<"Invalid", <<"SMTP response code ", ToString(smtp.code), ".">>>>

\* smtp_check on the outcome of its exchange: <<status, message>>.
smtp_check(smtp) ==
    IF smtp.kind = "SMTPConnectError" THEN <<"Invalid", <<"SMTP connection failed.">>>>
    ELSE IF smtp.kind = "Exception" \/ smtp.quit = "raise"
        THEN <<"Invalid", <<"SMTP error: ">> \o smtp.desc>>
    ELSE IF smtp.code = 250 THEN <<"Valid", <<"Email exists and is reachable.">>>>
    ELSE IF smtp.code = 550 THEN <<"Invalid", <<"Mailbox does not exist.">>>>
    ELSE IF smtp.code = 451 THEN <<"Greylisted", <<"Temporary error, try again later.">>>>
    ELSE <<"Invalid", <<"SMTP response code ", ToString(smtp.code), ".">>>>

\* parse_mx_host without the split: the whole message taken for the host.
parse_mx_host_whole(message) ==
    IF Contains(message, "MX records found") THEN message ELSE <<>>

\* The host the batch loop reads back from a "Valid" message.
parse_mx_host(message) ==
    IF Contains(message, "MX records found")
        THEN split_last(message, ", prioritized at ")
        ELSE <<>>

\* -------------------------------------------------------------------- state

VARIABLES
    emails,     \* the uploaded file, split into lines
    blacklist,  \* the uploaded blacklist
    phase,      \* "uploaded", "collecting", "done", or "aborted" by an exception
    futures,    \* one entry per submitted validate_email_address call
    results,    \* the list the batch loop appends to
    idx,        \* futures as_completed has handed to a finished loop body
    progress,   \* the fraction last given to the progress bar
    probing,    \* the future whose smtp_check the main thread is in, 0 for none
    world,      \* the answers of validate_email, the resolver and the mail
                \* servers that are fixed per address, when they are fixed
    seen        \* per address, the first disposition recorded under fixed answers

vars == <<emails, blacklist, phase, futures, results, idx, progress, probing, world, seen>>

NoSmtp == [kind |-> "none", code |-> 0, quit |-> "none", desc |-> <<>>]

\* A submitted call.  pc: "queued" in the executor's queue, "resolve" in
\* dns.resolver.resolve, "sleep" in time.sleep(1), "finished".  custom_sender
\* is the function's argument; retries, mx_records and mx_host are its locals;
\* outcome is what the future holds.
\* syntax, last_dns, attempts, pauses, probes, probe_host, mail_from and smtp
\* record the calls made for this future: the outcome of validate_email and of
\* the last resolver call, the number of resolver calls, of sleeps and of
\* smtp_check calls, the host and the sender its smtp_check was given, and the
\* exchange of that smtp_check.
\* yielded says as_completed has handed the future out.
NewFuture(email) ==
    [email |-> email, custom_sender |-> world.sender,
     pc |-> "queued", retries |-> 0, mx_records |-> <<>>, mx_host |-> <<>>,
     outcome |-> Outcome("none", "", <<>>), yielded |-> FALSE,
     syntax |-> "none", last_dns |-> "none", attempts |-> 0, pauses |-> 0,
     probes |-> 0, probe_host |-> <<>>, mail_from |-> <<>>, smtp |-> NoSmtp]

IsBlank(line) == strip(line) = <<>>

\* submitted with each address taken once, as a set of the lines would.
RECURSIVE submitted_unique(_)
submitted_unique(lines) ==
    IF lines = <<>> THEN <<>>
    ELSE IF IsBlank(Head(lines)) \/ (\E k \in 2..Len(lines) : strip(lines[k]) = strip(Head(lines)))
        THEN submitted_unique(Tail(lines))
    ELSE <<strip(Head(lines))>> \o submitted_unique(Tail(lines))

\* [... email.strip() ... for email in emails if email.strip()]
RECURSIVE submitted(_)
submitted(lines) ==
    IF lines = <<>> THEN <<>>
    ELSE IF IsBlank(Head(lines)) THEN submitted(Tail(lines))
    ELSE <<strip(Head(lines))>> \o submitted(Tail(lines))

Running == {i \in DOMAIN futures : futures[i].pc \in {"resolve", "sleep"}}

Disposition(email, status, message, id) ==
    [email |-> email, status |-> status, message |-> message, id |-> id]

Fraction(num, den) == [num |-> num, den |-> den]

\* The addresses the lines of the pool hold.
Addresses == {strip(l) : l \in Lines} \ {<<>>}

Unset == [kind |-> "unset"]

\* Nothing fixed: every call is answered afresh.
FreeWorld ==
    [fixed |-> FALSE, sender |-> default_sender, syn |-> <<>>, dns |-> <<>>, smtp |-> <<>>]

\* Answers fixed per address: the answer of validate_email, of the k-th
\* resolver call and of the mail server, each fixed by its first use.
FixedWorld ==
    [fixed |-> TRUE,
     sender |-> default_sender,
     syn |-> [a \in Addresses |-> Unset],
     dns |-> [a \in Addresses |-> <<>>],
     smtp |-> [a \in Addresses |-> Unset]]

InitBatch ==
    /\ emails \in SeqsUpTo(Lines, MaxLines)
    /\ blacklist \in Blacklists
    /\ phase = "uploaded"
    /\ futures = <<>>
    /\ results = <<>>
    /\ idx = 0
    /\ progress = Fraction(0, 1)
    /\ probing = 0
    /\ seen = <<>>

Init == InitBatch /\ world = FreeWorld

InitFixed ==
    /\ InitBatch
    /\ world = FixedWorld

\* A caller that gives validate_email_address a custom_sender of its choice.
InitSender ==
    /\ InitBatch
    /\ world \in {[FreeWorld EXCEPT !.sender = s] : s \in Senders}

\* ------------------------------------------------------------------ actions

\* results = [], progress = st.progress(0), and the executor.submit calls.
Submit ==
    /\ phase = "uploaded"
    /\ phase' = "collecting"
    /\ futures' = [i \in 1..Len(submitted(emails)) |-> NewFuture(submitted(emails)[i])]
    /\ results' = <<>>
    /\ idx' = 0
    /\ progress' = Fraction(0, 1)
    /\ UNCHANGED <<emails, blacklist, probing, world, seen>>

\* validate_email answers syn for email.
AnswersSyntax(email, syn) ==
    /\ world.fixed => world.syn[email] \in {Unset, syn}
    /\ world' = IF world.fixed THEN [world EXCEPT !.syn[email] = syn] ELSE world

\* The resolver answers dns to the k-th query of a call for email.
AnswersDns(email, k, dns) ==
    /\ world.fixed /\ k <= Len(world.dns[email]) => world.dns[email][k] = dns
    /\ world' = IF world.fixed /\ k > Len(world.dns[email])
                    THEN [world EXCEPT !.dns[email] = Append(@, dns)]
                    ELSE world

\* The mail server's exchange with smtp_check for email goes as smtp.
AnswersSmtp(email, smtp) ==
    /\ world.fixed => world.smtp[email] \in {Unset, smtp}
    /\ world' = IF world.fixed THEN [world EXCEPT !.smtp[email] = smtp] ELSE world

\* A free worker takes the oldest queued call and runs it up to the DNS loop.
WorkerStart(i) ==
    /\ phase \in {"collecting", "aborted"}
    /\ futures[i].pc = "queued"
    /\ \A j \in 1..(i - 1) : futures[j].pc # "queued"
    /\ Cardinality(Running) < max_workers
    /\ \E syn \in SyntaxOutcomes :
        LET o == classify(futures[i].email, syn, blacklist) IN
        /\ AnswersSyntax(futures[i].email, syn)
        /\ futures' = [futures EXCEPT ![i] =
            IF o.kind # "continue"
                THEN [@ EXCEPT !.syntax = syn.kind, !.pc = "finished", !.outcome = o]
            ELSE IF futures[i].retries < max_retries
                THEN [@ EXCEPT !.syntax = syn.kind, !.pc = "resolve"]
                ELSE [@ EXCEPT !.syntax = syn.kind, !.pc = "finished",
                               !.outcome = RetriesExhausted]]
    /\ UNCHANGED <<emails, blacklist, phase, results, idx, progress, probing, seen>>

\* dns.resolver.resolve returns or raises: one pass of the loop body.
DnsResolve(i) ==
    /\ futures[i].pc = "resolve"
    /\ \E dns \in DnsOutcomes :
        LET o == resolve_once(dns) IN
        /\ AnswersDns(futures[i].email, futures[i].attempts + 1, dns)
        /\ futures' = [futures EXCEPT ![i] =
            IF o.kind = "timeout"
                THEN [@ EXCEPT !.attempts = @ + 1, !.last_dns = dns.kind,
                               !.retries = @ + 1, !.pauses = @ + 1, !.pc = "sleep"]
            ELSE IF o.status = "Valid"
                THEN [@ EXCEPT !.attempts = @ + 1, !.last_dns = dns.kind,
                               !.pc = "finished", !.outcome = o,
                               !.mx_records = dns.records,
                               !.mx_host = mx_host_of(dns.records)]
                ELSE [@ EXCEPT !.attempts = @ + 1, !.last_dns = dns.kind,
                               !.mx_records = dns.records,
                               !.pc = "finished", !.outcome = o]]
    /\ UNCHANGED <<emails, blacklist, phase, results, idx, progress, probing, seen>>

\* The retries of all calls together, as one counter shared by the workers.
RECURSIVE TotalRetries(_)
TotalRetries(n) == IF n = 0 THEN 0 ELSE futures[n].retries + TotalRetries(n - 1)

\* RetryWake testing the shared counter in place of the call's own retries.
RetryWake_shared_retries(i) ==
    /\ futures[i].pc = "sleep"
    /\ futures' = [futures EXCEPT ![i] =
            IF TotalRetries(Len(futures)) < max_retries
                THEN [@ EXCEPT !.pc = "resolve"]
                ELSE [@ EXCEPT !.pc = "finished", !.outcome = RetriesExhausted]]
    /\ UNCHANGED <<emails, blacklist, phase, results, idx, progress, probing, world, seen>>

\* RetryWake with the loop condition off by one (retries <= max_retries).
RetryWake_off_by_one(i) ==
    /\ futures[i].pc = "sleep"
    /\ futures' = [futures EXCEPT ![i] =
            IF futures[i].retries <= max_retries
                THEN [@ EXCEPT !.pc = "resolve"]
                ELSE [@ EXCEPT !.pc = "finished", !.outcome = RetriesExhausted]]
    /\ UNCHANGED <<emails, blacklist, phase, results, idx, progress, probing, world, seen>>

\* time.sleep(1) returns: the loop condition is tested again.
RetryWake(i) ==
    /\ futures[i].pc = "sleep"
    /\ futures' = [futures EXCEPT ![i] =
            IF futures[i].retries < max_retries
                THEN [@ EXCEPT !.pc = "resolve"]
                ELSE [@ EXCEPT !.pc = "finished", !.outcome = RetriesExhausted]]
    /\ UNCHANGED <<emails, blacklist, phase, results, idx, progress, probing, world, seen>>

\* What seen holds after disposition d: the first disposition of each address,
\* and whether the address was recorded once or more often.
Seen(d) ==
    IF ~world.fixed THEN seen
    ELSE [a \in DOMAIN seen \cup {d.email} |->
            IF a # d.email THEN seen[a]
            ELSE IF a \in DOMAIN seen THEN [seen[a] EXCEPT !.times = 2]
            ELSE [status |-> d.status, message |-> d.message, times |-> 1]]

\* Record assigning the list in place of appending to it.
Record_overwrite(d) ==
    /\ results' = <<d>>
    /\ progress' = Fraction(idx + 1, Len(emails))
    /\ idx' = idx + 1
    /\ seen' = Seen(d)

\* Record with the division binding tighter: idx + 1 / len(emails).
Record_precedence(d) ==
    /\ results' = Append(results, d)
    /\ progress' = Fraction(idx * Len(emails) + 1, Len(emails))
    /\ idx' = idx + 1
    /\ seen' = Seen(d)

\* results.append(...) and progress.progress((idx + 1) / len(emails)).
Record(d) ==
    /\ results' = Append(results, d)
    /\ progress' = Fraction(idx + 1, Len(emails))
    /\ idx' = idx + 1
    /\ seen' = Seen(d)

\* Collect entering smtp_check for every returned result, whatever its status.
Collect_always_probe(i) ==
    /\ phase = "collecting"
    /\ probing = 0
    /\ futures[i].pc = "finished"
    /\ ~futures[i].yielded
    /\ LET o == futures[i].outcome
       IN IF o.kind = "raise"
              THEN /\ phase' = "aborted"
                   /\ futures' = [futures EXCEPT ![i].yielded = TRUE]
                   /\ UNCHANGED <<results, idx, progress, probing, seen>>
          ELSE /\ probing' = i
               /\ futures' = [futures EXCEPT ![i].yielded = TRUE,
                                             ![i].probes = @ + 1,
                                             ![i].probe_host = parse_mx_host(o.message),
                                             ![i].mail_from = default_sender]
               /\ UNCHANGED <<phase, results, idx, progress, seen>>
    /\ UNCHANGED <<emails, blacklist, world>>

\* as_completed hands a finished future to the loop body, which takes its
\* result and either records it or enters smtp_check.
Collect(i) ==
    /\ phase = "collecting"
    /\ probing = 0
    /\ futures[i].pc = "finished"
    /\ ~futures[i].yielded
    /\ LET o == futures[i].outcome
           email == futures[i].email
       IN IF o.kind = "raise"
              THEN /\ phase' = "aborted"
                   /\ futures' = [futures EXCEPT ![i].yielded = TRUE]
                   /\ UNCHANGED <<results, idx, progress, probing, seen>>
          ELSE IF o.status = "Valid" /\ parse_mx_host(o.message) # <<>>
              THEN /\ probing' = i
                   /\ futures' = [futures EXCEPT ![i].yielded = TRUE,
                                                 ![i].probes = @ + 1,
                                                 ![i].probe_host = parse_mx_host(o.message),
                                                 ![i].mail_from = default_sender]
                   /\ UNCHANGED <<phase, results, idx, progress, seen>>
          ELSE /\ Record(Disposition(email, o.status, o.message, i))
               /\ futures' = [futures EXCEPT ![i].yielded = TRUE]
               /\ UNCHANGED <<phase, probing>>
    /\ UNCHANGED <<emails, blacklist, world>>

\* smtp_check returns to the loop body, which records its result.
SmtpReturn ==
    /\ probing # 0
    /\ \E smtp \in SmtpOutcomes :
        /\ AnswersSmtp(futures[probing].email, smtp)
        /\ futures' = [futures EXCEPT ![probing].smtp = smtp]
        /\ Record(Disposition(futures[probing].email,
                              smtp_check(smtp)[1], smtp_check(smtp)[2], probing))
    /\ probing' = 0
    /\ UNCHANGED <<emails, blacklist, phase>>

\* The loop has consumed every future: the results are displayed.
Finish ==
    /\ phase = "collecting"
    /\ probing = 0
    /\ \A i \in DOMAIN futures : futures[i].yielded
    /\ phase' = "done"
    /\ UNCHANGED <<emails, blacklist, futures, results, idx, progress, probing, world, seen>>

\* The script runs again on a new upload, once the last run has ended.
Rerun ==
    /\ phase \in {"done", "aborted"}
    /\ \A i \in DOMAIN futures : futures[i].pc = "finished"
    /\ emails' \in SeqsUpTo(Lines, MaxLines)
    /\ phase' = "uploaded"
    /\ futures' = <<>>
    /\ results' = <<>>
    /\ idx' = 0
    /\ progress' = Fraction(0, 1)
    /\ UNCHANGED <<blacklist, probing, world, seen>>

Next ==
    \/ Submit
    \/ \E i \in DOMAIN futures : WorkerStart(i)
    \/ \E i \in DOMAIN futures : DnsResolve(i)
    \/ \E i \in DOMAIN futures : RetryWake(i)
    \/ \E i \in DOMAIN futures : Collect(i)
    \/ SmtpReturn
    \/ Finish

Spec == Init /\ [][Next]_vars

\* Runs of the script one after another, under answers fixed per address.
NextFixed == Next \/ Rerun

SpecFixed == InitFixed /\ [][NextFixed]_vars

\* The batch run for a caller that chooses the custom_sender.
SpecSender == InitSender /\ [][Next]_vars

\* Workers and the main thread keep running while they have a step to take.
SpecFair == Init /\ [][Next]_vars /\ WF_vars(Next)

\* ------------------------------------------------------------------- claims

\* A line without its leading and trailing whitespace, read off its positions.
Trimmed(line) ==
    LET inked == {k \in 1..Len(line) : line[k] # " "} IN
    IF inked = {} THEN <<>>
    ELSE SubSeq(line, CHOOSE k \in inked : \A m \in inked : k <= m,
                      CHOOSE k \in inked : \A m \in inked : m <= k)

\* What follows the last "@" of an address.
AfterLastAt(email) ==
    LET ats == {k \in 1..Len(email) : email[k] = "@"} IN
    IF ats = {} THEN email
    ELSE SubSeq(email, (CHOOSE k \in ats : \A m \in ats : m <= k) + 1, Len(email))

BlankCount == Cardinality({k \in DOMAIN emails : Trimmed(emails[k]) = <<>>})

RecordedFor(i) == {k \in DOMAIN results : results[k].id = i}

\* C1: once the batch has completed, the results hold exactly one disposition
\* per line that is non-empty after trimming, carrying the trimmed address,
\* and none for a blank line: as multisets, the addresses of the results are
\* the trimmed non-blank lines, and the result count is N minus the blanks.
C1_OneDispositionPerLine ==
    phase = "done" =>
        /\ Len(results) = Len(emails) - BlankCount
        /\ \A a \in {Trimmed(emails[k]) : k \in DOMAIN emails}
                    \cup {results[k].email : k \in DOMAIN results} :
              Cardinality({k \in DOMAIN results : results[k].email = a})
                = IF a = <<>> THEN 0
                  ELSE Cardinality({k \in DOMAIN emails : Trimmed(emails[k]) = a})
        /\ \A j, k \in DOMAIN results : results[j].id = results[k].id => j = k

\* A completed batch of two lines holding the same address, both recorded.
C1_Witness ==
    /\ phase = "done"
    /\ Len(emails) = 2
    /\ Len(results) = 2
    /\ results[1].email = results[2].email

\* C2: an unexpected error in one invocation never aborts the batch: the
\* failing address gets an Invalid disposition and the batch goes on.
C2_FailureIsContained ==
    /\ phase # "aborted"
    /\ \A i \in DOMAIN futures :
          futures[i].outcome.kind = "raise" /\ futures[i].yielded =>
              \E k \in RecordedFor(i) : results[k].status = "Invalid"

\* C3: progress advances by 1/(number of dispatched invocations) per completed
\* invocation and is exactly 1.0 when the last invocation has completed.
C3_ProgressCountsDispatched ==
    /\ phase \in {"collecting", "done"} /\ idx > 0 =>
          progress.num * Len(futures) = idx * progress.den
    /\ phase = "done" /\ Len(futures) > 0 => progress.num = progress.den

\* C4: an invocation whose every resolution attempt timed out made exactly 3
\* attempts and no SMTP probe, and ends Invalid with the retry-exhaustion
\* message.
C4_TimeoutsExhaustRetries ==
    \A i \in DOMAIN futures :
        LET f == futures[i] IN
        f.pc = "finished" /\ f.attempts > 0 /\ f.retries = f.attempts =>
            /\ f.attempts = 3
            /\ f.probes = 0
            /\ f.smtp = NoSmtp
            /\ probing # i
            /\ f.outcome.status = "Invalid"
            /\ f.outcome.message = <<"DNS query failed after multiple retries.">>
            /\ \A k \in RecordedFor(i) :
                  /\ results[k].status = "Invalid"
                  /\ results[k].message = <<"DNS query failed after multiple retries.">>

\* An invocation that timed out three times has its disposition recorded.
C4_Witness ==
    \E i \in DOMAIN futures :
        /\ futures[i].attempts = 3
        /\ futures[i].retries = 3
        /\ RecordedFor(i) # {}

\* C5: a syntactically valid address whose domain (after the last "@") is
\* blacklisted is Blacklisted, also when the domain is disposable as well; it
\* is Disposable only when the domain is disposable and not blacklisted; in
\* both cases neither a DNS query nor an SMTP probe is made for it.
C5_BlacklistBeforeDisposable ==
    \A i \in DOMAIN futures :
        LET f == futures[i]
            domain == AfterLastAt(f.email)
            ends(status) ==
                /\ f.pc = "finished"
                /\ f.outcome.status = status
                /\ f.attempts = 0
                /\ f.probes = 0
                /\ probing # i
                /\ \A k \in RecordedFor(i) : results[k].status = status
        IN /\ f.syntax = "ok" /\ domain \in blacklist => ends("Blacklisted")
           /\ f.syntax = "ok" /\ domain \notin blacklist /\ domain \in disposable_providers
                 => ends("Disposable")
           /\ f.outcome.status = "Disposable"
                 => domain \in disposable_providers /\ domain \notin blacklist

\* A blacklisted disposable domain, behind a second "@", recorded as Blacklisted.
C5_Witness ==
    \E k \in DOMAIN results :
        /\ results[k].status = "Blacklisted"
        /\ AfterLastAt(results[k].email) \in blacklist \cap disposable_providers
        /\ Cardinality({m \in 1..Len(results[k].email) : results[k].email[m] = "@"}) = 2

\* C6: for an address whose DNS stage resolved a non-empty MX host, the
\* disposition follows the RCPT reply of the single probe: 250 Valid, 550
\* Invalid ("Mailbox does not exist."), 451 Greylisted, another code Invalid
\* with the code in the message; a failed exchange gives Invalid.  Greylisted
\* is never the status of an address that did not receive 451.
C6_ProbeCodeDecides ==
    \A k \in DOMAIN results :
        LET r == results[k]
            f == futures[r.id]
            replied == f.smtp.kind = "rcpt" /\ f.smtp.quit = "ok"
        IN /\ f.mx_host # <<>> =>
                /\ f.probes = 1
                /\ f.smtp # NoSmtp
                /\ replied /\ f.smtp.code = 250 => r.status = "Valid"
                /\ replied /\ f.smtp.code = 550 =>
                      r.status = "Invalid" /\ r.message = <<"Mailbox does not exist.">>
                /\ replied /\ f.smtp.code = 451 => r.status = "Greylisted"
                /\ replied /\ f.smtp.code \notin {250, 550, 451} =>
                      r.status = "Invalid" /\ Contains(r.message, ToString(f.smtp.code))
                /\ ~replied => r.status = "Invalid"
           /\ r.status = "Greylisted" => replied /\ f.smtp.code = 451

\* A probe answered 451 and recorded as Greylisted.
C6_Witness ==
    \E k \in DOMAIN results :
        /\ results[k].status = "Greylisted"
        /\ futures[results[k].id].mx_host # <<>>
        /\ futures[results[k].id].smtp.code = 451

\* An invocation from the start of its classifier step until its final
\* disposition is determined: in a worker, or resolved to a host and not yet
\* through its probe.
InProgress(i) ==
    \/ futures[i].pc \in {"resolve", "sleep"}
    \/ /\ futures[i].pc = "finished"
       /\ futures[i].mx_host # <<>>
       /\ futures[i].smtp = NoSmtp

\* C7: at every moment at most as many invocations are in progress as the
\* pool has workers.
C7_AtMostPoolInProgress ==
    Cardinality({i \in DOMAIN futures : InProgress(i)}) <= max_workers

Statuses == {"Valid", "Invalid", "Blacklisted", "Disposable", "Greylisted"}

\* C9: every disposition in the results has one of the five statuses and a
\* non-empty message.
C9_StatusAndMessage ==
    \A k \in DOMAIN results :
        /\ results[k].status \in Statuses
        /\ Len(results[k].message) > 0

\* A syntax error whose exception has no text, recorded.
C9_Witness ==
    \E k \in DOMAIN results :
        /\ results[k].status = "Invalid"
        /\ results[k].message = <<"Invalid syntax: ">>

InUnit(p) == p.den > 0 /\ 0 <= p.num /\ p.num <= p.den

\* C10: progress stays within [0,1], never decreases, and changes exactly when
\* a disposition is recorded, one at a time, in whatever order the
\* invocations complete.
C10_ProgressMonotone ==
    [][/\ InUnit(progress) /\ InUnit(progress')
       /\ progress.num * progress'.den <= progress'.num * progress.den
       /\ Len(results') \in {Len(results), Len(results) + 1}
       /\ (progress' # progress) <=> (Len(results') = Len(results) + 1)]_vars

\* Half way through a batch of two, the second address recorded first.
C10_Witness ==
    /\ Len(results) = 1
    /\ results[1].id = 2
    /\ progress = Fraction(1, 2)

AllCollected ==
    /\ phase = "done"
    /\ \A i \in DOMAIN futures : futures[i].pc = "finished" /\ RecordedFor(i) # {}

\* C12: under fair scheduling every dispatched invocation reaches its
\* terminal outcome and the batch completes with every invocation collected.
C12_BatchCompletes == <>AllCollected

\* C13: an SMTP probe is made only for an invocation whose classifier let it
\* continue and whose DNS resolution returned with a non-empty host, and at
\* most once per invocation.
C13_ProbeOnlyAfterResolution ==
    \A i \in DOMAIN futures :
        LET f == futures[i]
            domain == AfterLastAt(f.email)
        IN /\ f.probes <= 1
           /\ (f.probes > 0) = (probing = i \/ f.smtp # NoSmtp)
           /\ f.probes > 0 =>
                /\ f.pc = "finished"
                /\ f.syntax = "ok"
                /\ domain \notin blacklist \cup disposable_providers
                /\ f.last_dns = "answer"
                /\ f.mx_records # <<>>
                /\ f.mx_host # <<>>
           /\ f.smtp # NoSmtp => probing # i /\ Cardinality(RecordedFor(i)) = 1

\* A probe that failed, beside an address that ended at the DNS stage unprobed.
C13_Witness ==
    \E i, j \in DOMAIN futures :
        /\ futures[i].smtp.kind = "SMTPConnectError"
        /\ futures[i].probes = 1
        /\ futures[j].last_dns = "NXDOMAIN"
        /\ futures[j].probes = 0
        /\ RecordedFor(j) # {}

\* An invocation in a blocking step: a DNS round-trip, the retry pause, or
\* the SMTP handshake.
Blocked(i) == futures[i].pc \in {"resolve", "sleep"} \/ probing = i

\* Invocation j can take its next step: start on a free worker when it heads
\* the queue, go on in its worker, or be handed to the loop body, which
\* records it or starts its probe.
CanAdvance(j) ==
    LET f == futures[j] IN
    /\ f.pc = "queued" /\ Cardinality(Running) < max_workers
           /\ (\A m \in 1..(j - 1) : futures[m].pc # "queued")
           => ENABLED WorkerStart(j)
    /\ f.pc = "resolve" => ENABLED DnsResolve(j)
    /\ f.pc = "sleep" => ENABLED RetryWake(j)
    /\ f.pc = "finished" /\ ~f.yielded => ENABLED Collect(j)

\* C14: while one invocation is in a blocking step, every other unfinished
\* invocation can still advance, its probe and its collection included.
C14_BlockingIsLocal ==
    phase = "collecting" =>
        \A i, j \in DOMAIN futures : i # j /\ Blocked(i) => CanAdvance(j)

\* C15: under every interleaving of completions each collection step appends
\* one disposition and advances progress once, none is lost or duplicated,
\* earlier entries never change, and nothing changes once the batch is done.
C15_AppendAndCount ==
    [][/\ \/ results' = results
          \/ /\ Len(results') = Len(results) + 1
             /\ SubSeq(results', 1, Len(results)) = results
       /\ idx' = Len(results') /\ progress'.num = Len(results')
       /\ \A i \in DOMAIN futures' :
             Cardinality({k \in DOMAIN results' : results'[k].id = i})
                = IF futures'[i].yielded /\ futures'[i].outcome.kind # "raise" /\ probing' # i
                  THEN 1 ELSE 0
       /\ phase = "done" => results' = results /\ progress' = progress]_vars

\* A finished batch whose two dispositions were appended in reverse order.
C15_Witness ==
    /\ phase = "done"
    /\ Len(results) = 2
    /\ results[1].id = 2
    /\ results[2].id = 1
    /\ progress = Fraction(2, 2)

\* A host name without its trailing dots.
StripDots(name) ==
    LET kept == {k \in 1..Len(name) : name[k] # "."} IN
    IF kept = {} THEN <<>>
    ELSE SubSeq(name, 1, CHOOSE k \in kept : \A m \in kept : m <= k)

\* The first record, in the resolver's order, among those of lowest preference.
Preferred(records) ==
    records[CHOOSE k \in DOMAIN records :
                \A m \in DOMAIN records :
                    \/ records[k].preference < records[m].preference
                    \/ records[k].preference = records[m].preference /\ k <= m]

Resolved(f) == f.last_dns = "answer" /\ f.mx_records # <<>>

\* C16: for every non-empty record set the resolver returned, the host chosen
\* is the exchange of the record of lowest preference, the first such record
\* in the resolver's order, without its trailing dot.
C16_LowestPreferenceFirst ==
    \A i \in DOMAIN futures :
        LET f == futures[i] IN
        Resolved(f) =>
            /\ f.mx_host = StripDots(Preferred(f.mx_records).exchange)
            /\ f.outcome.status = "Valid"
            /\ f.outcome.message = <<"MX records found", ", prioritized at ">> \o f.mx_host

\* A record set led by a higher preference, with two records tied for the lowest.
C16_Witness ==
    \E i \in DOMAIN futures :
        /\ Resolved(futures[i])
        /\ Len(futures[i].mx_records) = 3
        /\ futures[i].mx_records[1].preference > futures[i].mx_records[2].preference
        /\ futures[i].mx_records[2].preference = futures[i].mx_records[3].preference
        /\ futures[i].mx_host = <<"mx1">>

\* C17: only a timeout is retried.  NXDOMAIN, an empty record set and any
\* other resolver error end the invocation at once as Invalid with their
\* message, also after earlier timeouts; an invocation makes 1 attempt plus
\* one per retried timeout, and at most 3.
C17_OnlyTimeoutRetried ==
    \A i \in DOMAIN futures :
        LET f == futures[i]
            ends(message) ==
                /\ f.pc = "finished"
                /\ f.outcome.status = "Invalid"
                /\ f.outcome.message = message
                /\ f.attempts = f.retries + 1
                /\ f.probes = 0
                /\ \A k \in RecordedFor(i) :
                      results[k].status = "Invalid" /\ results[k].message = message
        IN /\ f.attempts <= 3
           /\ f.last_dns = "NXDOMAIN" => ends(<<"Domain does not exist.">>)
           /\ f.last_dns = "answer" /\ f.mx_records = <<>>
                 => ends(<<"No MX records found for domain.">>)
           /\ f.last_dns = "Exception" => ends(<<"DNS error: ", "e">>)
           /\ f.last_dns = "answer" => f.pc = "finished" /\ f.attempts = f.retries + 1
           /\ f.last_dns = "Timeout" =>
                 f.attempts = f.retries /\ (f.pc = "resolve" => f.attempts < 3)

\* NXDOMAIN on the third attempt, after two timeouts, recorded.
C17_Witness ==
    \E i \in DOMAIN futures :
        /\ futures[i].last_dns = "NXDOMAIN"
        /\ futures[i].retries = 2
        /\ futures[i].attempts = 3
        /\ RecordedFor(i) # {}

\* C18: when resolution succeeds but the chosen exchange is empty without its
\* trailing dot, no probe is made and the disposition is the DNS outcome,
\* Valid with the "MX records found" message; a disposition carries that
\* message in no other case.
C18_EmptyHostSkipsProbe ==
    /\ \A i \in DOMAIN futures :
          LET f == futures[i] IN
          Resolved(f) /\ StripDots(Preferred(f.mx_records).exchange) = <<>> =>
              /\ f.probes = 0
              /\ probing # i
              /\ f.yielded => RecordedFor(i) # {}
              /\ \A k \in RecordedFor(i) :
                    /\ results[k].status = "Valid"
                    /\ results[k].message = <<"MX records found", ", prioritized at ">>
    /\ \A k \in DOMAIN results :
          Contains(results[k].message, "MX records found") =>
              /\ Resolved(futures[results[k].id])
              /\ StripDots(Preferred(futures[results[k].id].mx_records).exchange) = <<>>

\* The null MX record "0 ." resolved and recorded without a probe.
C18_Witness ==
    \E k \in DOMAIN results :
        /\ results[k].status = "Valid"
        /\ Contains(results[k].message, "MX records found")
        /\ futures[results[k].id].mx_records = MxNull
        /\ futures[results[k].id].probes = 0

\* C19: every pause is followed by another resolution attempt: an invocation
\* of k attempts takes k-1 pauses, and none follows the third timeout.
C19_PauseOnlyBetweenAttempts ==
    \A i \in DOMAIN futures :
        LET f == futures[i] IN
        /\ f.pc = "sleep" => f.retries < max_retries
        /\ f.pc = "finished" /\ f.attempts > 0 => f.pauses = f.attempts - 1

====
